---- MODULE Spec2Model ----
(***************************************************************************)
(* Model of src/built-up-model-training.ipynb:                             *)
(*   - cut(line, distance, lines): the LineString segmenter;               *)
(*   - parse_subtree / parse_one_tree / parse_trees / parse_model: the     *)
(*     LightGBM-to-Javascript model compiler.                              *)
(*                                                                         *)
(* Geometry.  Polylines are modelled exactly, on the integers: every       *)
(* vertex lies on the x axis, the coordinate (x, 0) is written x, and the  *)
(* cut distance is an integer, so that length, project and interpolate     *)
(* are computed without rounding.  Such a line may run back over itself.   *)
(*                                                                         *)
(* Numbers.  A float is modelled as an integer count of 10^-6 units        *)
(* (0.1235 is 123500); its text is produced and read digit by digit.       *)
(***************************************************************************)
EXTENDS Integers, Sequences, FiniteSets, TLC

VARIABLES
    line,        \* cut: the LineString handed to the top-level call
    distance,    \* cut: the distance handed to the top-level call
    before,      \* cut: contents of the caller's list when the call was made
    lines,       \* cut: contents of the caller's list (the accumulator) now
    ret,         \* cut: the list the top-level call returned (<<>> if None)
    retNone,     \* cut: TRUE when the top-level call returned None
    pc,          \* "init" before the first call, "called" after any call
    arg_root,    \* parse_one_tree: the tree handed in
    arg_index,   \* parse_one_tree: the index handed in
    tree_function, \* parse_one_tree: the text returned ("" if none)
    tree_raised, \* parse_one_tree: "" or the exception that left the call
    MODEL_INPUTS,      \* compiler: the configured feature-name list
    trees,             \* compiler: model_json['tree_info'] of the last call
    js_output_filename,\* compiler: TRUE when a file name was passed
    file,              \* compiler: contents of the output file ("" = not written)
    written,           \* compiler: TRUE when the output file was written
    model_javascript,  \* compiler: the text parse_model returned ("" if none)
    raised             \* compiler: "" or the exception that left parse_model

cutVars == <<line, distance, before, lines, ret, retNone>>
treeVars == <<arg_root, arg_index, tree_function, tree_raised>>
parseVars == <<trees, js_output_filename, file, written,
               model_javascript, raised>>
vars == <<cutVars, treeVars, parseVars, MODEL_INPUTS, pc>>

-----------------------------------------------------------------------------
(* Bounds of the model *)

MaxX == 3        \* vertex coordinates are 0 .. MaxX
MaxVerts == 4    \* a polyline has 2 .. MaxVerts vertices
MaxDist == 3     \* distances are -1 .. MaxDist
MaxHeld == 1     \* the caller reuses its list while it holds <= MaxHeld lines
MaxSplits == 2   \* a tree handed to parse_one_tree has <= MaxSplits split nodes
MaxTrees == 2    \* an ensemble has 0 .. MaxTrees trees

-----------------------------------------------------------------------------
(* Integer helpers *)

Abs(a) == IF a < 0 THEN -a ELSE a
Min2(a, b) == IF a <= b THEN a ELSE b
Max2(a, b) == IF a >= b THEN a ELSE b
MinOf(S) == CHOOSE m \in S : \A o \in S : m <= o

-----------------------------------------------------------------------------
(* shapely's LineString, restricted to the x axis *)

\* LineString(coords): at least two coordinates, consecutive ones distinct
Polylines ==
    UNION { { l \in [1..n -> 0..MaxX] : \A k \in 1 .. (n - 1) : l[k] # l[k + 1] }
            : n \in 2..MaxVerts }

Distances == -1 .. MaxDist

\* arc length of vertex k of the line (sum of the segments before it)
RECURSIVE ArcAt(_, _)
ArcAt(l, k) == IF k <= 1 THEN 0 ELSE ArcAt(l, k - 1) + Abs(l[k] - l[k - 1])

\* line.length
Length(l) == ArcAt(l, Len(l))

\* nearest point of segment k (from l[k] to l[k+1]) to p
SegNearest(l, k, p) ==
    Max2(Min2(l[k], l[k + 1]), Min2(p, Max2(l[k], l[k + 1])))

SegDistance(l, k, p) == Abs(p - SegNearest(l, k, p))

SegMeasure(l, k, p) == ArcAt(l, k) + Abs(SegNearest(l, k, p) - l[k])

\* line.project(Point(p)): arc length of the point of the line nearest to
\* p; of several equally near segments the first one wins (GEOS keeps a
\* segment only when it is strictly nearer than the ones before it).
Project(l, p) ==
    LET segs == 1 .. (Len(l) - 1)
        best == MinOf({ SegDistance(l, k, p) : k \in segs })
        k0 == MinOf({ k \in segs : SegDistance(l, k, p) = best })
    IN SegMeasure(l, k0, p)

\* line.interpolate(d) for 0 <= d <= line.length: the point at arc length d
Interpolate(l, d) ==
    LET k == MinOf({ j \in 1 .. (Len(l) - 1) : ArcAt(l, j + 1) >= d })
        step == d - ArcAt(l, k)
    IN IF l[k + 1] >= l[k] THEN l[k] + step ELSE l[k] - step

-----------------------------------------------------------------------------
(* cut(line, distance, lines) *)

\* coords[:i+1]
Prefix(coords, i) == SubSeq(coords, 1, i)
\* coords[i:]   (i is the 1-based index of Python's coords[i])
Suffix(coords, i) == SubSeq(coords, i, Len(coords))

\* the vertices at which the scan of the for loop leaves the function
ScanHits(l, d) == { i \in 1 .. Len(l) : Project(l, l[i]) >= d }

RECURSIVE cut(_, _, _)

\* cut with the line that needs no cutting appended to the list handed in
cut_appending_uncut(l, d, acc) ==
    IF d <= 0 \/ d >= Length(l)
    THEN [ret |-> Append(acc, l), isNone |-> FALSE, lines |-> Append(acc, l)]
    ELSE IF ScanHits(l, d) = {}
    THEN [ret |-> << >>, isNone |-> TRUE, lines |-> acc]
    ELSE
      LET i == MinOf(ScanHits(l, d))
          pd == Project(l, l[i])
      IN IF pd = d
         THEN [ret |-> << Prefix(l, i), Suffix(l, i) >>,
               isNone |-> FALSE, lines |-> acc]
         ELSE
           LET cp == Interpolate(l, d)
               acc1 == Append(acc, Append(Prefix(l, i - 1), cp))
               rest == << cp >> \o Suffix(l, i)
               acc2 == IF Length(rest) > d
                       THEN cut(rest, d, acc1).lines
                       ELSE Append(acc1, rest)
           IN [ret |-> acc2, isNone |-> FALSE, lines |-> acc2]

\* cut with the remainder cut into a new list, which then replaces the
\* list handed in
cut_remainder_into_new_list(l, d, acc) ==
    IF d <= 0 \/ d >= Length(l)
    THEN [ret |-> << l >>, isNone |-> FALSE, lines |-> acc]
    ELSE IF ScanHits(l, d) = {}
    THEN [ret |-> << >>, isNone |-> TRUE, lines |-> acc]
    ELSE
      LET i == MinOf(ScanHits(l, d))
          pd == Project(l, l[i])
      IN IF pd = d
         THEN [ret |-> << Prefix(l, i), Suffix(l, i) >>,
               isNone |-> FALSE, lines |-> acc]
         ELSE
           LET cp == Interpolate(l, d)
               acc1 == Append(acc, Append(Prefix(l, i - 1), cp))
               rest == << cp >> \o Suffix(l, i)
               acc2 == IF Length(rest) > d
                       THEN cut(rest, d, << >>).lines
                       ELSE Append(acc1, rest)
           IN [ret |-> acc2, isNone |-> FALSE, lines |-> acc2]

\* Result of one invocation: the value returned (ret, or isNone when the
\* loop falls off its end) and the accumulator list as the call leaves it.
cut(l, d, acc) ==
    IF d <= 0 \/ d >= Length(l)
    THEN [ret |-> << l >>, isNone |-> FALSE, lines |-> acc]
    ELSE IF ScanHits(l, d) = {}
    THEN [ret |-> << >>, isNone |-> TRUE, lines |-> acc]
    ELSE
      LET i == MinOf(ScanHits(l, d))
          pd == Project(l, l[i])
      IN IF pd = d
         THEN [ret |-> << Prefix(l, i), Suffix(l, i) >>,
               isNone |-> FALSE, lines |-> acc]
         ELSE
           LET cp == Interpolate(l, d)
               acc1 == Append(acc, Append(Prefix(l, i - 1), cp))
               rest == << cp >> \o Suffix(l, i)
               acc2 == IF Length(rest) > d
                       THEN cut(rest, d, acc1).lines
                       ELSE Append(acc1, rest)
           IN [ret |-> acc2, isNone |-> FALSE, lines |-> acc2]

-----------------------------------------------------------------------------
(* Python's number formatting, on floats counted in 10^-6 units *)

RECURSIVE Pow10(_)
Pow10(n) == IF n <= 0 THEN 1 ELSE 10 * Pow10(n - 1)

\* the unit of the fixed-point floats: 1.0 is 10^6
Micro == Pow10(6)

DigitChar(d) == SubSeq("0123456789", d + 1, d + 1)

\* f'{n}' of an int n >= 0
RECURSIVE IntStr(_)
IntStr(n) == IF n < 10 THEN DigitChar(n)
             ELSE IntStr(n \div 10) \o DigitChar(n % 10)

\* the digits of the fraction frac / 10^width, trailing zeros dropped
RECURSIVE FracDigits(_, _)
FracDigits(frac, width) ==
    IF frac = 0 \/ width = 0 THEN ""
    ELSE DigitChar(frac \div Pow10(width - 1))
         \o FracDigits(frac % Pow10(width - 1), width - 1)

\* f'{x}' of a float x (repr): sign, integer digits, ".", and the fraction
\* digits with at least one digit kept; neg is the float's sign bit, so
\* that -0.0 prints "-0.0".  (Positional notation: x = 0 or
\* 1e-4 <= |x| < 1e16, which every float of the model satisfies.)
FloatStr(neg, mag) ==
    (IF neg THEN "-" ELSE "")
    \o IntStr(mag \div Micro) \o "."
    \o (IF mag % Micro = 0 THEN "0" ELSE FracDigits(mag % Micro, 6))

\* |round(x, digits)| from |x|: to the nearest multiple of 10^-digits, an
\* exact tie going to the even one
RoundMag(mag, digits) ==
    LET unit == Pow10(6 - digits)
        q == mag \div unit
        r == mag % unit
    IN IF 2 * r < unit THEN q * unit
       ELSE IF 2 * r > unit THEN (q + 1) * unit
       ELSE IF q % 2 = 0 THEN q * unit ELSE (q + 1) * unit

\* PRECISION_SCORES = 4, PRECISION_THRESHOLD = None
PRECISION_SCORES == [isNone |-> FALSE, digits |-> 4]
PRECISION_THRESHOLD == [isNone |-> TRUE, digits |-> 0]

\* round(x, precision) when precision is not None, then f'{x}'
Rounded(v, precision) ==
    IF precision.isNone THEN Abs(v) ELSE RoundMag(Abs(v), precision.digits)

Formatted(v, precision) == FloatStr(v < 0, Rounded(v, precision))

\* ', '.join(names) and the like
RECURSIVE Join(_, _)
Join(sep, strs) ==
    IF strs = << >> THEN ""
    ELSE IF Len(strs) = 1 THEN strs[1]
    ELSE strs[1] \o sep \o Join(sep, Tail(strs))

-----------------------------------------------------------------------------
(* parse_subtree, parse_one_tree *)

\* model_inputs[int(idx)]: Python indexing, a negative index counts from
\* the end of the list; err is the IndexError
ListIndex(model_inputs, idx) ==
    LET n == Len(model_inputs)
    IN IF idx >= 0 /\ idx < n THEN [err |-> FALSE, val |-> model_inputs[idx + 1]]
       ELSE IF idx < 0 /\ idx >= -n
       THEN [err |-> FALSE, val |-> model_inputs[n + idx + 1]]
       ELSE [err |-> TRUE, val |-> ""]

IsLeaf(node) == "leaf_index" \in DOMAIN node

RECURSIVE parse_subtree(_, _, _)

\* parse_subtree with the two branches of the ternary exchanged
parse_subtree_branches_swapped(node, model_inputs, brackets) ==
    IF IsLeaf(node)
    THEN [err |-> FALSE, text |-> Formatted(node.leaf_value, PRECISION_SCORES)]
    ELSE
      LET feature == ListIndex(model_inputs, node.split_feature)
          threshold == Formatted(node.threshold, PRECISION_THRESHOLD)
          condition == feature.val \o node.decision_type \o threshold
          left == parse_subtree(node.left_child, model_inputs, TRUE)
          right == parse_subtree(node.right_child, model_inputs, TRUE)
          result == "(" \o condition \o ")?" \o right.text \o ":" \o left.text
      IN IF feature.err \/ left.err \/ right.err
         THEN [err |-> TRUE, text |-> ""]
         ELSE IF brackets
         THEN [err |-> FALSE, text |-> "(" \o result \o ")"]
         ELSE [err |-> FALSE, text |-> result]

\* Result: the text returned, or err when an IndexError leaves the call
parse_subtree(node, model_inputs, brackets) ==
    IF IsLeaf(node)
    THEN [err |-> FALSE, text |-> Formatted(node.leaf_value, PRECISION_SCORES)]
    ELSE
      LET feature == ListIndex(model_inputs, node.split_feature)
          threshold == Formatted(node.threshold, PRECISION_THRESHOLD)
          condition == feature.val \o node.decision_type \o threshold
          left == parse_subtree(node.left_child, model_inputs, TRUE)
          right == parse_subtree(node.right_child, model_inputs, TRUE)
          result == "(" \o condition \o ")?" \o left.text \o ":" \o right.text
      IN IF feature.err \/ left.err \/ right.err
         THEN [err |-> TRUE, text |-> ""]
         ELSE IF brackets
         THEN [err |-> FALSE, text |-> "(" \o result \o ")"]
         ELSE [err |-> FALSE, text |-> result]

\* parse_one_tree that leaves brackets at its default, True
parse_one_tree_bracketed(root, index, model_input_str, model_inputs) ==
    LET body == parse_subtree(root, model_inputs, TRUE)
    IN IF body.err THEN [err |-> TRUE, text |-> ""]
       ELSE [err |-> FALSE,
             text |-> "\nfunction pt" \o IntStr(index) \o "("
                      \o model_input_str \o ") { \n   return "
                      \o body.text \o ";\n}\n"]

parse_one_tree(root, index, model_input_str, model_inputs) ==
    LET body == parse_subtree(root, model_inputs, FALSE)
    IN IF body.err THEN [err |-> TRUE, text |-> ""]
       ELSE [err |-> FALSE,
             text |-> "\nfunction pt" \o IntStr(index) \o "("
                      \o model_input_str \o ") { \n   return "
                      \o body.text \o ";\n}\n"]

MODEL_INPUTS_STR == Join(", ", MODEL_INPUTS)

-----------------------------------------------------------------------------
(* parse_trees, parse_model *)

BANDS == << "B01", "B02", "B03", "B04", "B05", "B06", "B07", "B08", "B09",
            "B11", "B12" >>

\* f'"{band}"' for band in BANDS
RECURSIVE Quoted(_)
Quoted(strs) ==
    IF strs = << >> THEN << >>
    ELSE << "\"" \o strs[1] \o "\"" >> \o Quoted(Tail(strs))

\* the program text before the band list
HarnessHead ==
    "\n"
    \o "//VERSION=3\n"
    \o "function setup() {\n"
    \o "    return {\n"
    \o "        input: [{\n"
    \o "            bands: ["

\* the program text from the band list to the tree functions
HarnessBody ==
    "],\n"
    \o "            units: \"DN\"\n"
    \o "        }],\n"
    \o "        output: {\n"
    \o "            id:\"default\",\n"
    \o "            bands: 4,\n"
    \o "            sampleType: \"AUTO\"\n"
    \o "        }\n"
    \o "    }\n"
    \o "}\n"
    \o "function evaluatePixel(sample) {\n"
    \o "    // define the indices you need\n"
    \o "    let NDVI = (sample.B08 - sample.B04)/(sample.B08 + sample.B04)\n"
    \o "    let NDVI_RE1 = (sample.B08 - sample.B05)/(sample.B08 + sample.B05)\n"
    \o "    \n"
    \o "    ...\n"
    \o "    \n"
    \o "    let STI = sample.B11 / sample.B12\n"
    \o "    \n"
    \o "    // call the model. Keep in mind that DN have to be divided by 1.e4 to get the same values as the models so when training\n"
    \o "    let BLDG_PROBA = predict(sample.B01/1.e4, sample.B02/1.e4,..., STI)\n"
    \o "    \n"
    \o "    // make a mask of predictions\n"
    \o "    let BLDG_PROBA_080 = (BLDG_PROBA > 0.8) ? 1 : 0;\n"
    \o "    \n"
    \o "    // return a blue mask where the mask is used as a transparency layer. With minor modificaitons one can also return the probabilities themselves.\n"
    \o "    return [0, 0, 0, 0.4 * BLDG_PROBA_080]\n"
    \o "}\n"

\* [parse_one_tree(tree['tree_structure'], idx, ...) for idx, tree in
\* enumerate(trees)], from position k on (idx = k - 1)
RECURSIVE TreeFunctions(_, _)
TreeFunctions(ts, k) ==
    IF k > Len(ts) THEN << >>
    ELSE << parse_one_tree(ts[k].tree_structure, k - 1, MODEL_INPUTS_STR,
                           MODEL_INPUTS) >>
         \o TreeFunctions(ts, k + 1)

\* [f'pt{i}({MODEL_INPUTS_STR})' for i in range(n)], from i on
RECURSIVE TreeCalls(_, _)
TreeCalls(i, n) ==
    IF i >= n THEN << >>
    ELSE << "pt" \o IntStr(i) \o "(" \o MODEL_INPUTS_STR \o ")" >>
         \o TreeCalls(i + 1, n)

RECURSIVE Texts(_)
Texts(rs) == IF rs = << >> THEN << >> ELSE << rs[1].text >> \o Texts(Tail(rs))

\* parse_trees that sums pt1 .. ptn: range(1, len(trees) + 1)
parse_trees_sum_from_one(ts) ==
    LET fs == TreeFunctions(ts, 1)
        tree_functions == Join("\n", Texts(fs))
        function_sum == Join("+", TreeCalls(1, Len(ts) + 1))
    IN IF \E k \in 1 .. Len(fs) : fs[k].err
       THEN [err |-> TRUE, text |-> ""]
       ELSE [err |-> FALSE,
             text |-> HarnessHead \o Join(",", Quoted(BANDS)) \o HarnessBody
                      \o tree_functions
                      \o "\nfunction predict(" \o MODEL_INPUTS_STR \o ") { \n"
                      \o "    return [1/(1+Math.exp(-1*(" \o function_sum
                      \o ")))];\n"
                      \o "}\n"]

parse_trees(ts) ==
    LET fs == TreeFunctions(ts, 1)
        tree_functions == Join("\n", Texts(fs))
        function_sum == Join("+", TreeCalls(0, Len(ts)))
    IN IF \E k \in 1 .. Len(fs) : fs[k].err
       THEN [err |-> TRUE, text |-> ""]
       ELSE [err |-> FALSE,
             text |-> HarnessHead \o Join(",", Quoted(BANDS)) \o HarnessBody
                      \o tree_functions
                      \o "\nfunction predict(" \o MODEL_INPUTS_STR \o ") { \n"
                      \o "    return [1/(1+Math.exp(-1*(" \o function_sum
                      \o ")))];\n"
                      \o "}\n"]

-----------------------------------------------------------------------------
(* Inputs of the compiler *)

\* floats, in 10^-6 units: 1.0, -1.0, 0.123456
LeafValues == { 1000000, -1000000, 123456 }

\* split_feature, threshold (1.5, 0.5), decision_type
SplitLabels ==
    { [split_feature |-> 0, threshold |-> 1500000, decision_type |-> "<="],
      [split_feature |-> 1, threshold |-> 500000, decision_type |-> ">"] }

Leaves == { [leaf_index |-> 0, leaf_value |-> v] : v \in LeafValues }

SplitsOver(L, R) ==
    { [split_feature |-> lb.split_feature, threshold |-> lb.threshold,
       decision_type |-> lb.decision_type, left_child |-> l, right_child |-> r]
      : lb \in SplitLabels, l \in L, r \in R }

\* the trees with exactly n split nodes
RECURSIVE TreesOfSize(_)
TreesOfSize(n) ==
    IF n = 0 THEN Leaves
    ELSE UNION { SplitsOver(TreesOfSize(k), TreesOfSize(n - 1 - k))
                 : k \in 0 .. (n - 1) }

Trees == UNION { TreesOfSize(n) : n \in 0 .. MaxSplits }

\* the feature-name lists a user may configure (MODEL_INPUTS = [] as shipped)
ModelInputChoices == { << >>, << "B01" >>, << "B01", "NDVI" >> }

\* the trees of an ensemble: stumps, one with a feature index past the end
\* of every configured list and one with a negative index
Stump(f, a, b) ==
    [split_feature |-> f, threshold |-> 1500000, decision_type |-> "<=",
     left_child |-> [leaf_index |-> 0, leaf_value |-> a],
     right_child |-> [leaf_index |-> 1, leaf_value |-> b]]

EnsembleTrees ==
    { [leaf_index |-> 0, leaf_value |-> 123456],
      Stump(0, 1000000, -1000000),
      Stump(1, -1000000, 1000000),
      Stump(2, 1000000, 123456),
      Stump(-1, 123456, -1000000) }

\* model_json['tree_info']
Ensembles ==
    UNION { [1 .. n -> { [tree_structure |-> t] : t \in EnsembleTrees }]
            : n \in 0 .. MaxTrees }

-----------------------------------------------------------------------------
(* The segmenter's state machine: a caller that cuts one line repeatedly,  *)
(* handing in either a new empty list or the list it already holds.        *)

\* what the caller's list holds from cutting another line before
HeldList == << <<0, 1>> >>

CutInit ==
    /\ line \in Polylines
    /\ distance \in Distances
    /\ before = << >>
    /\ lines = HeldList
    /\ ret = << >>
    /\ retNone = FALSE

TreeIdle ==
    /\ arg_root = [leaf_index |-> 0, leaf_value |-> 0]
    /\ arg_index = 0
    /\ tree_function = ""
    /\ tree_raised = ""

ParseIdle ==
    /\ trees = << >>
    /\ js_output_filename = FALSE
    /\ file = ""
    /\ written = FALSE
    /\ model_javascript = ""
    /\ raised = ""

CutIdle ==
    /\ line = << 0, 1 >>
    /\ distance = 0
    /\ before = << >>
    /\ lines = << >>
    /\ ret = << >>
    /\ retNone = FALSE

Init ==
    /\ pc = "init"
    /\ CutInit
    /\ TreeIdle
    /\ ParseIdle
    /\ MODEL_INPUTS = << >>

DoCut(acc) ==
    LET r == cut(line, distance, acc)
    IN /\ before' = acc
       /\ lines' = r.lines
       /\ ret' = r.ret
       /\ retNone' = r.isNone
       /\ pc' = "called"
       /\ UNCHANGED <<line, distance, treeVars, parseVars, MODEL_INPUTS>>

\* cut(line, distance, [])
CutNew == DoCut(<< >>)

\* cut(line, distance, lines) with the list the caller holds from before
CutHeld ==
    /\ Len(lines) <= MaxHeld
    /\ DoCut(lines)

Next == CutNew \/ CutHeld

Spec == Init /\ [][Next]_vars

-----------------------------------------------------------------------------
(* The tree compiler's state machine: one call of parse_one_tree *)

InitTree ==
    /\ pc = "init"
    /\ CutIdle
    /\ TreeIdle
    /\ ParseIdle
    /\ MODEL_INPUTS \in ModelInputChoices

ParseOneTree(t, idx) ==
    LET r == parse_one_tree(t, idx, MODEL_INPUTS_STR, MODEL_INPUTS)
    IN /\ pc = "init"
       /\ arg_root' = t
       /\ arg_index' = idx
       /\ tree_function' = r.text
       /\ tree_raised' = IF r.err THEN "IndexError" ELSE ""
       /\ pc' = "called"
       /\ UNCHANGED <<cutVars, parseVars, MODEL_INPUTS>>

NextTree == \E t \in Trees : ParseOneTree(t, 0)

SpecTree == InitTree /\ [][NextTree]_vars

-----------------------------------------------------------------------------
(* The model compiler's state machine: one call of parse_model *)

\* parse_model with js_output_filename given (TRUE) or None (FALSE)
ParseModel(ts, named) ==
    LET r == parse_trees(ts)
    IN /\ pc = "init"
       /\ trees' = ts
       /\ js_output_filename' = named
       /\ raised' = IF r.err THEN "IndexError" ELSE ""
       /\ model_javascript' = r.text
       /\ IF ~r.err /\ named
          THEN file' = r.text /\ written' = TRUE
          ELSE UNCHANGED <<file, written>>
       /\ pc' = "called"
       /\ UNCHANGED <<cutVars, treeVars, MODEL_INPUTS>>

NextModel == \E ts \in Ensembles, named \in BOOLEAN : ParseModel(ts, named)

SpecModel == InitTree /\ [][NextModel]_vars

-----------------------------------------------------------------------------
(* Claims about cut *)

Called == pc = "called"
\* the precondition 0 < d < L.length of the segmenting case
Segmenting == 0 < distance /\ distance < Length(line)

Last(s) == s[Len(s)]

\* each segment's last coordinate is the next segment's first
Chained(segs) ==
    \A k \in 1 .. (Len(segs) - 1) : Last(segs[k]) = segs[k + 1][1]

\* the segments joined in order, a shared endpoint taken once
RECURSIVE Joined(_)
Joined(segs) ==
    IF segs = << >> THEN << >>
    ELSE IF Len(segs) = 1 THEN segs[1]
    ELSE segs[1] \o Tail(Joined(Tail(segs)))

\* positions, in Joined(segs), of the points where two segments meet
RECURSIVE JoinAt(_, _)
JoinAt(segs, k) ==
    IF k = 0 THEN 1 ELSE JoinAt(segs, k - 1) + Len(segs[k]) - 1
Junctions(segs) == { JoinAt(segs, k) : k \in 1 .. (Len(segs) - 1) }

\* s without the positions in D
RECURSIVE Without(_, _, _)
Without(s, D, k) ==
    IF k > Len(s) THEN << >>
    ELSE (IF k \in D THEN << >> ELSE << s[k] >>) \o Without(s, D, k + 1)

\* joining segs gives l, up to cut points added where segments meet
Reconstructs(segs, l) ==
    /\ segs # << >>
    /\ \A k \in 1 .. Len(segs) : Len(segs[k]) >= 2
    /\ Chained(segs)
    /\ \E D \in SUBSET Junctions(segs) : Without(Joined(segs), D, 1) = l

\* every segment one invocation of cut and the invocations nested in it
\* produce (appended to the accumulator or returned), in traversal order
RECURSIVE Produced(_, _)
Produced(l, d) ==
    IF d <= 0 \/ d >= Length(l) THEN << l >>
    ELSE IF ScanHits(l, d) = {} THEN << >>
    ELSE LET i == MinOf(ScanHits(l, d))
         IN IF Project(l, l[i]) = d THEN << Prefix(l, i), Suffix(l, i) >>
            ELSE LET cp == Interpolate(l, d)
                     rest == << cp >> \o Suffix(l, i)
                 IN << Append(Prefix(l, i - 1), cp) >> \o
                    (IF Length(rest) > d THEN Produced(rest, d) ELSE << rest >>)

\* C1: for 0 < d < L.length the segments cut returns (into an empty list),
\* joined in order at their shared endpoints, reconstruct L: no vertex is
\* lost, duplicated or reordered, only cut points are added.
C1_Reconstructs ==
    (Called /\ Segmenting /\ before = << >>)
        => (~retNone /\ Reconstructs(ret, line))

\* C2: for 0 < d < L.length every returned segment except possibly the last
\* has length at most d.
C2_LengthAtMostD ==
    (Called /\ Segmenting /\ before = << >> /\ ~retNone)
        => \A k \in 1 .. (Len(ret) - 1) : Length(ret[k]) <= distance

\* C3: for d <= 0 or d >= L.length cut returns exactly [L] and adds nothing
\* to the accumulator list handed in.
C3_NoCut ==
    (Called /\ (distance <= 0 \/ distance >= Length(line)))
        => (~retNone /\ ret = << line >> /\ lines = before)

C3_Witness ==
    /\ Called
    /\ distance >= Length(line)
    /\ Length(line) > 0
    /\ before # << >>
    /\ ret = << line >>

\* C4 (as stated): whatever list the caller hands in, every call with the
\* same line and distance returns the same sequence.  (Within a behaviour
\* all calls have the same line and distance.)
C4_SameOutput == [][Called => (ret' = ret /\ retNone' = retNone)]_vars

\* C4 (amended): the result is a function of line, distance and the
\* contents of the accumulator: a call that interpolates a cut point returns
\* the accumulator's earlier contents followed by what it returns for an
\* empty accumulator; the other calls return what they return for an empty
\* accumulator and leave the accumulator alone.
C4_AccumulatorPrefix ==
    LET f == cut(line, distance, << >>)
    IN Called =>
        /\ retNone = f.isNone
        /\ lines = before \o f.lines
        /\ ret = IF f.lines = << >> THEN f.ret ELSE before \o f.ret

C4_Witness ==
    /\ Called
    /\ Segmenting
    /\ before # << >>
    /\ Len(ret) > Len(before) + 1
    /\ ret # cut(line, distance, << >>).ret

\* C9: for 0 < d < L.length the top-level call returns a non-empty segment
\* sequence: the scan never runs off the end of the loop.
C9_ReturnsSegments ==
    (Called /\ Segmenting) => (~retNone /\ Len(ret) >= 1)

\* C10: the sequence the top-level call returns holds, in traversal order,
\* every segment of every nested invocation: those appended to the
\* accumulator and the [prefix, suffix] pair of a vertex exactly at d.
C10_NestedSegmentsReturned ==
    (Called /\ Segmenting /\ before = << >> /\ ~retNone)
        => ret = Produced(line, distance)

-----------------------------------------------------------------------------
(* Reading the generated Javascript: the value of an expression text, with *)
(* the precedence of the language (parentheses, unary minus, relational    *)
(* operators, then the right-associative conditional a ? b : c).           *)

CharAt(s, i) == IF i >= 1 /\ i <= Len(s) THEN SubSeq(s, i, i) ELSE ""

DigitChars == { "0", "1", "2", "3", "4", "5", "6", "7", "8", "9" }
IdentStart ==
    { "A", "B", "C", "D", "E", "F", "G", "H", "I", "J", "K", "L", "M", "N",
      "O", "P", "Q", "R", "S", "T", "U", "V", "W", "X", "Y", "Z", "_",
      "a", "b", "c", "d", "e", "f", "g", "h", "i", "j", "k", "l", "m", "n",
      "o", "p", "q", "r", "s", "t", "u", "v", "w", "x", "y", "z" }

DigitVal(c) == CHOOSE d \in 0 .. 9 : DigitChar(d) = c

\* first position at or after i that holds no character of the class
RECURSIVE SkipWhile(_, _, _)
SkipWhile(s, i, class) ==
    IF CharAt(s, i) \in class THEN SkipWhile(s, i + 1, class) ELSE i

\* the number the digits s[i .. j-1] spell
RECURSIVE DigitsVal(_, _, _)
DigitsVal(s, i, j) ==
    IF j <= i THEN 0
    ELSE 10 * DigitsVal(s, i, j - 1) + DigitVal(CharAt(s, j - 1))

JsFail == [ok |-> FALSE, val |-> 0, pos |-> 0]

\* a numeric literal digits[.digits] at i, in 10^-6 units
JsNumber(s, i) ==
    LET j == SkipWhile(s, i, DigitChars)
        k == IF CharAt(s, j) = "." THEN SkipWhile(s, j + 1, DigitChars) ELSE j
        nfrac == IF k > j THEN k - j - 1 ELSE 0
    IN IF j = i \/ nfrac > 6 THEN JsFail
       ELSE [ok |-> TRUE,
             val |-> DigitsVal(s, i, j) * Micro
                     + DigitsVal(s, j + 1, k) * Pow10(6 - nfrac),
             pos |-> k]

RelOps == << "<=", ">=", "==", "<", ">" >>

Compare(a, op, b) ==
    CASE op = "<=" -> a <= b
      [] op = ">=" -> a >= b
      [] op = "==" -> a = b
      [] op = "<" -> a < b
      [] op = ">" -> a > b

\* the relational operator that starts at i ("" if none), longest first
RelOpAt(s, i) ==
    LET hits == { k \in 1 .. Len(RelOps) :
                    SubSeq(s, i, Min2(Len(s), i + Len(RelOps[k]) - 1)) = RelOps[k] }
    IN IF hits = {} THEN "" ELSE RelOps[MinOf(hits)]

RECURSIVE JsConditional(_, _, _)
RECURSIVE JsUnary(_, _, _)

JsPrimary(s, i, env) ==
    LET c == CharAt(s, i)
    IN IF c = "("
       THEN LET e == JsConditional(s, i + 1, env)
            IN IF e.ok /\ CharAt(s, e.pos) = ")"
               THEN [e EXCEPT !.pos = e.pos + 1] ELSE JsFail
       ELSE IF c \in DigitChars THEN JsNumber(s, i)
       ELSE IF c \in IdentStart
       THEN LET j == SkipWhile(s, i, IdentStart \cup DigitChars)
                name == SubSeq(s, i, j - 1)
            IN IF name \in DOMAIN env
               THEN [ok |-> TRUE, val |-> env[name], pos |-> j] ELSE JsFail
       ELSE JsFail

JsUnary(s, i, env) ==
    IF CharAt(s, i) = "-"
    THEN LET e == JsUnary(s, i + 1, env)
         IN IF e.ok THEN [e EXCEPT !.val = -e.val] ELSE JsFail
    ELSE JsPrimary(s, i, env)

\* a comparison yields true (1) or false (0)
JsRelational(s, i, env) ==
    LET a == JsUnary(s, i, env)
        op == RelOpAt(s, a.pos)
        b == JsUnary(s, a.pos + Len(op), env)
    IN IF ~a.ok \/ op = "" THEN a
       ELSE IF ~b.ok THEN JsFail
       ELSE [ok |-> TRUE,
             val |-> IF Compare(a.val, op, b.val) THEN 1 ELSE 0,
             pos |-> b.pos]

JsConditional(s, i, env) ==
    LET c == JsRelational(s, i, env)
        t == JsConditional(s, c.pos + 1, env)
        f == JsConditional(s, t.pos + 1, env)
    IN IF ~c.ok \/ CharAt(s, c.pos) # "?" THEN c
       ELSE IF ~t.ok \/ CharAt(s, t.pos) # ":" THEN JsFail
       ELSE IF ~f.ok THEN JsFail
       ELSE [ok |-> TRUE, val |-> IF c.val # 0 THEN t.val ELSE f.val,
             pos |-> f.pos]

\* the value of the whole text s as one expression
JsEval(s, env) ==
    LET e == JsConditional(s, 1, env)
    IN IF e.ok /\ e.pos = Len(s) + 1 THEN e ELSE JsFail

-----------------------------------------------------------------------------
(* Claims about the compiler *)

TreeCompiled == pc = "called" /\ tree_raised = ""

\* the expression between "return " and ";" of the function text
TreeBody ==
    LET head == "\nfunction pt" \o IntStr(arg_index) \o "("
                \o MODEL_INPUTS_STR \o ") { \n   return "
    IN SubSeq(tree_function, Len(head) + 1, Len(tree_function) - Len(";\n}\n"))

RECURSIVE SplitCount(_)
SplitCount(node) ==
    IF IsLeaf(node) THEN 0
    ELSE 1 + SplitCount(node.left_child) + SplitCount(node.right_child)

\* number of positions of s that hold the character c
CountChar(s, c) == Cardinality({ i \in 1 .. Len(s) : SubSeq(s, i, i) = c })

\* position of the ")" that closes the "(" at position i
RECURSIVE CloseOf(_, _, _)
CloseOf(s, i, depth) ==
    IF i > Len(s) THEN 0
    ELSE IF CharAt(s, i) = "(" THEN CloseOf(s, i + 1, depth + 1)
    ELSE IF CharAt(s, i) = ")"
    THEN (IF depth = 1 THEN i ELSE CloseOf(s, i + 1, depth - 1))
    ELSE CloseOf(s, i + 1, depth)

\* C5: in the text for a tree root the root's ternary has no enclosing
\* parenthesis pair (the first "(" closes before the root's "?"), every
\* non-root split adds exactly one pair beside the pair of its condition,
\* and no leaf literal stands in parentheses; the stump on B01 <= 1.5 with
\* leaves 1.0 and -1.0 compiles to (B01<=1.5)?1.0:-1.0.
C5_Parentheses ==
    TreeCompiled =>
      LET b == TreeBody
          n == SplitCount(arg_root)
      IN /\ n = 0 => CountChar(b, "(") = 0 /\ CountChar(b, ")") = 0
         /\ n > 0 =>
              /\ CountChar(b, "(") = 2 * n - 1
              /\ CountChar(b, ")") = 2 * n - 1
              /\ CharAt(b, 1) = "("
              /\ CharAt(b, CloseOf(b, 1, 0) + 1) = "?"
         /\ \A i \in 1 .. Len(b) :
              CharAt(b, i) = "(" =>
                  CharAt(b, i + 1) \notin (DigitChars \cup {"-"})
         /\ (/\ n = 1
             /\ arg_root.split_feature = 0
             /\ arg_root.decision_type = "<="
             /\ arg_root.threshold = 1500000
             /\ arg_root.left_child.leaf_value = 1000000
             /\ arg_root.right_child.leaf_value = -1000000
             /\ MODEL_INPUTS = << "B01" >>) => b = "(B01<=1.5)?1.0:-1.0"

C5_Witness ==
    /\ TreeCompiled
    /\ MODEL_INPUTS = << "B01" >>
    /\ TreeBody = "(B01<=1.5)?((B01<=1.5)?1.0:-1.0):0.1235"

\* the leaf reached by walking the tree: left_child when
\* feature <op> threshold holds, right_child otherwise
RECURSIVE Walk(_, _)
Walk(node, env) ==
    IF IsLeaf(node) THEN node.leaf_value
    ELSE IF Compare(env[MODEL_INPUTS[node.split_feature + 1]],
                    node.decision_type, node.threshold)
    THEN Walk(node.left_child, env)
    ELSE Walk(node.right_child, env)

\* feature values below, at and above the thresholds (0.5, 1.5, 2.0)
FeatureValues == { 500000, 1500000, 2000000 }
Envs == [ { MODEL_INPUTS[k] : k \in 1 .. Len(MODEL_INPUTS) } -> FeatureValues ]

\* C8 (as stated): for every assignment of the features the emitted
\* expression evaluates to the score of the leaf reached by walking the tree.
C8_YieldsLeafScore ==
    TreeCompiled =>
      \A env \in Envs :
          LET e == JsEval(TreeBody, env)
          IN e.ok /\ e.val = Walk(arg_root, env)

\* round(score, PRECISION_SCORES) of a score v
RoundedScore(v) ==
    LET m == RoundMag(Abs(v), PRECISION_SCORES.digits)
    IN IF v < 0 THEN -m ELSE m

\* C8 (amended): for every assignment of the features the emitted expression
\* evaluates to the score, rounded to PRECISION_SCORES = 4 decimals, of the
\* leaf reached by walking the tree.
C8_YieldsRoundedLeafScore ==
    TreeCompiled =>
      \A env \in Envs :
          LET e == JsEval(TreeBody, env)
          IN e.ok /\ e.val = RoundedScore(Walk(arg_root, env))

C8_Witness ==
    /\ TreeCompiled
    /\ SplitCount(arg_root) = 2
    /\ ~IsLeaf(arg_root.left_child)
    /\ Len(MODEL_INPUTS) = 2
    /\ \E env \in Envs :
         /\ Walk(arg_root, env) = 123456
         /\ Walk(arg_root.left_child, env) = 123456
         /\ JsEval(TreeBody, env).val = 123500
    /\ \E env \in Envs : Walk(arg_root, env) = -1000000

ModelCompiled == pc = "called" /\ raised = "" /\ model_javascript # ""

\* positions at which pat occurs in s
Occurrences(s, pat) ==
    { i \in 1 .. (Len(s) - Len(pat) + 1) : SubSeq(s, i, i + Len(pat) - 1) = pat }

\* the definition of the function of tree number i (from 0)
FunctionDef(i) ==
    "\nfunction pt" \o IntStr(i) \o "(" \o MODEL_INPUTS_STR \o ") { \n   return "
    \o parse_subtree(trees[i + 1].tree_structure, MODEL_INPUTS, FALSE).text
    \o ";\n}\n"

\* pt0(P)+pt1(P)+...+pt(n-1)(P)
RECURSIVE CallSum(_, _)
CallSum(i, n) ==
    IF i >= n THEN ""
    ELSE (IF i > 0 THEN "+" ELSE "")
         \o "pt" \o IntStr(i) \o "(" \o MODEL_INPUTS_STR \o ")"
         \o CallSum(i + 1, n)

\* C6: for an ensemble of n trees the program holds exactly n per-tree
\* function definitions, pt0 .. pt(n-1) in input order, pt_i holding the
\* compiled body of tree i, all with the same parameter list; and the predict
\* body is 1/(1+Math.exp(-1*(S))), S the "+"-joined calls of pt0 .. pt(n-1)
\* in index order with that parameter list.
C6_FunctionsAndPredict ==
    ModelCompiled =>
      LET text == model_javascript
          n == Len(trees)
          at(i) == Occurrences(text, FunctionDef(i))
          predict == "\nfunction predict(" \o MODEL_INPUTS_STR \o ") { \n"
                     \o "    return [1/(1+Math.exp(-1*(" \o CallSum(0, n)
                     \o ")))];\n}\n"
      IN /\ Cardinality(Occurrences(text, "function pt")) = n
         /\ \A i \in 0 .. (n - 1) : Cardinality(at(i)) = 1
         /\ \A i \in 0 .. (n - 2) : \A a \in at(i), b \in at(i + 1) : a < b
         /\ Len(text) - Len(predict) + 1 \in Occurrences(text, predict)
         /\ Cardinality(Occurrences(text, "Math.exp")) = 1

C6_Witness ==
    /\ ModelCompiled
    /\ Len(trees) = 2
    /\ trees[1] # trees[2]
    /\ ~IsLeaf(trees[1].tree_structure)
    /\ MODEL_INPUTS = << "B01", "NDVI" >>

\* some split node of the tree has a feature index outside 0 .. n-1
RECURSIVE HasIndexOutOfBounds(_, _)
HasIndexOutOfBounds(node, n) ==
    /\ ~IsLeaf(node)
    /\ \/ node.split_feature < 0
       \/ node.split_feature >= n
       \/ HasIndexOutOfBounds(node.left_child, n)
       \/ HasIndexOutOfBounds(node.right_child, n)

\* C7: compiling a split node whose feature index is < 0 or >= the number
\* of feature names fails with an IndexError; the failure aborts the whole
\* compilation, and no program text is returned or written.
C7_OutOfBoundsAborts ==
    (/\ pc = "called"
     /\ \E k \in 1 .. Len(trees) :
          HasIndexOutOfBounds(trees[k].tree_structure, Len(MODEL_INPUTS)))
      => (raised = "IndexError" /\ model_javascript = "" /\ ~written)

====
